---- MODULE Spec2Model ----
(***************************************************************************)
(* Model of archive/python-agents/cost-effective-agent-heartbeat.py:       *)
(* class CostEffectiveAgent (constructor, get_system_metrics,              *)
(* get_instance_metadata, calculate_cost, send_heartbeat,                  *)
(* simulate_task_activity, run).                                           *)
(*                                                                         *)
(* Units.  Percentages carried in a metrics snapshot are integers counting *)
(* hundredths of a percent (round(x, 2)); psutil readings of cpu and       *)
(* memory are integers counting tenths of a percent; hourly rates are      *)
(* integers counting 1e-4 dollars (round(x, 4)), daily and monthly costs   *)
(* are integers counting cents (round(x, 2)); random.random() draws are    *)
(* integers counting hundredths.                                           *)
(***************************************************************************)
EXTENDS Integers, Sequences, FiniteSets, TLC

VARIABLES
    pc,                 \* control location of the process
    heartbeat_interval, \* self.heartbeat_interval
    tasks_completed,    \* self.tasks_completed
    current_tasks,      \* self.current_tasks
    metrics,            \* send_heartbeat's local `metrics`
    instance_id,        \* get_instance_metadata's local `instance_id`
    metadata,           \* send_heartbeat's local `metadata`
    payload,            \* send_heartbeat's local `payload`, handed to requests.post
    success,            \* run's local `success`
    last,               \* the event that produced the current state
    hist,               \* what happened in the current loop iteration
    trail               \* what happened before: the configuration read, the
                        \* previous POST and the sleeps completed since

vars == <<pc, heartbeat_interval, tasks_completed, current_tasks, metrics,
          instance_id, metadata, payload, success, last, hist, trail>>

----------------------------------------------------------------------------
(* Bounds of the model *)

\* the "task completed" draw is only taken below this value of tasks_completed
MaxCompleted == 2

----------------------------------------------------------------------------
(* Python values *)

None == "None"
NoValue == "unset"      \* a local variable that is not bound

Pow10(n) == IF n = 0 THEN 1 ELSE IF n = 1 THEN 10 ELSE IF n = 2 THEN 100
            ELSE IF n = 3 THEN 1000 ELSE 10000

\* round(num/den, ndigits) for num >= 0, den > 0, in units of 10^-ndigits;
\* Python rounds halves to even
round(num, den, ndigits) ==
    LET n == num * Pow10(ndigits)
        q == n \div den
        r == n % den
    IN  IF 2 * r < den THEN q
        ELSE IF 2 * r > den THEN q + 1
        ELSE IF q % 2 = 0 THEN q ELSE q + 1

min(a, b) == IF a < b THEN a ELSE b

\* dict.get(key) with the default None
Get(d, key) == IF key \in DOMAIN d THEN d[key] ELSE None

----------------------------------------------------------------------------
(* __init__: configuration from the environment *)

Digits == {"0", "1", "2", "3", "4", "5", "6", "7", "8", "9"}

DigitVal(c) == CASE c = "0" -> 0 [] c = "1" -> 1 [] c = "2" -> 2 [] c = "3" -> 3
                 [] c = "4" -> 4 [] c = "5" -> 5 [] c = "6" -> 6 [] c = "7" -> 7
                 [] c = "8" -> 8 [] c = "9" -> 9

RECURSIVE LStrip(_)
LStrip(s) == IF s # <<>> /\ Head(s) = " " THEN LStrip(Tail(s)) ELSE s

RECURSIVE RStrip(_)
RStrip(s) == IF s # <<>> /\ s[Len(s)] = " " THEN RStrip(SubSeq(s, 1, Len(s) - 1)) ELSE s

Unsigned(s) == IF s # <<>> /\ Head(s) \in {"+", "-"} THEN Tail(s) ELSE s

RECURSIVE DigitsValue(_)
DigitsValue(s) == IF s = <<>> THEN 0
                  ELSE 10 * DigitsValue(SubSeq(s, 1, Len(s) - 1)) + DigitVal(s[Len(s)])

\* int(s) accepts surrounding blanks, one optional sign and decimal digits
IsIntLiteral(s) ==
    LET u == Unsigned(RStrip(LStrip(s)))
    IN  u # <<>> /\ \A i \in 1..Len(u) : u[i] \in Digits

int(s) ==
    LET t == RStrip(LStrip(s))
        v == DigitsValue(Unsigned(t))
    IN  IF Head(t) = "-" THEN 0 - v ELSE v

\* values of the environment variable HEARTBEAT_INTERVAL: <<>> is "not set",
\* <<s>> is "set to the string s" (a sequence of characters)
EnvIntervals ==
    { <<>>,
      << <<" ", "3", "0", " ">> >>,
      << <<"0">> >>,
      << <<"-", "1">> >>,
      << <<"a", "b", "c">> >>,
      << <<"1", ".", "5">> >>,
      << <<>> >> }

\* os.environ.get('HEARTBEAT_INTERVAL', '30')
EnvGet(e) == IF e = <<>> THEN <<"3", "0">> ELSE e[1]

----------------------------------------------------------------------------
(* get_system_metrics *)

\* What the host answers to the four psutil queries of one sampling: `fail`
\* names the query that raises ("none": all answer), cpu and mem are in tenths
\* of a percent, used/total are the root filesystem's sizes, recv/sent the
\* cumulative byte counters.
HostSample(fail, cpu, mem, used, total, recv, sent) ==
    [fail |-> fail, cpu |-> cpu, mem |-> mem, used |-> used, total |-> total,
     recv |-> recv, sent |-> sent]

HostSamples ==
    { HostSample("none", 0, 500, 3, 10, 0, 0),
      HostSample("none", 100, 500, 3, 10, 7, 9),
      HostSample("none", 101, 500, 3, 10, 7, 9),
      HostSample("none", 800, 500, 3, 10, 7, 9),
      HostSample("none", 801, 500, 3, 10, 7, 9),
      HostSample("none", 850, 500, 3, 10, 7, 9),
      HostSample("none", 1000, 987, 2, 3, 7, 9),
      HostSample("none", 850, 500, 0, 0, 7, 9),
      HostSample("cpu", 0, 0, 0, 0, 0, 0),
      HostSample("memory", 850, 0, 0, 0, 0, 0),
      HostSample("disk", 850, 500, 0, 0, 0, 0),
      HostSample("network", 850, 500, 3, 10, 0, 0) }

\* the try block raises: a psutil query raises, or disk.total is 0
\* (ZeroDivisionError in disk.used / disk.total)
SamplingRaises(h) == h.fail # "none" \/ h.total = 0

SampledSnapshot(h, tc, ct) ==
    [cpuUsage |-> round(h.cpu, 10, 2),
     memoryUsage |-> round(h.mem, 10, 2),
     diskUsage |-> round(h.used * 100, h.total, 2),
     networkIn |-> h.recv,
     networkOut |-> h.sent,
     tasksCompleted |-> tc,
     currentTasks |-> ct]

\* a slip: the except branch forgets the task counters
ZeroSnapshot_NoCounters(tc, ct) ==
    [cpuUsage |-> 0, memoryUsage |-> 0, diskUsage |-> 0, networkIn |-> 0,
     networkOut |-> 0, tasksCompleted |-> 0, currentTasks |-> 0]

ZeroSnapshot(tc, ct) ==
    [cpuUsage |-> 0, memoryUsage |-> 0, diskUsage |-> 0, networkIn |-> 0,
     networkOut |-> 0, tasksCompleted |-> tc, currentTasks |-> ct]

\* a slip: the except branch reports the cpu reading it already has
SystemMetrics_KeepsCpu(h, tc, ct) ==
    IF SamplingRaises(h)
    THEN [ZeroSnapshot(tc, ct) EXCEPT !.cpuUsage = round(h.cpu, 10, 2)]
    ELSE SampledSnapshot(h, tc, ct)

SystemMetrics(h, tc, ct) ==
    IF SamplingRaises(h) THEN ZeroSnapshot(tc, ct) ELSE SampledSnapshot(h, tc, ct)

----------------------------------------------------------------------------
(* get_instance_metadata *)

\* requests.get either raises (timeout, connection error) or returns a response
Raised == [kind |-> "error"]
Response(status_code, text) == [kind |-> "response", status_code |-> status_code, text |-> text]

IdReplies == { Raised, Response(200, "i-0abc"), Response(404, "Not Found") }

TypeReplies ==
    { Raised, Response(500, "error"), Response(200, "z9.unknown") }
    \cup { Response(200, t) : t \in
              {"t2.micro", "t2.small", "t2.medium", "t3.micro", "t3.small",
               "t3.medium", "m5.large", "m5.xlarge", "c5.large", "c5.xlarge"} }

\* response.text if response.status_code == 200 else None
TextIf200(r) == IF r.status_code = 200 THEN r.text ELSE None

\* the dict returned at the end of the try block
FullMetadata(iid, itype) ==
    [instanceId |-> iid, instanceType |-> itype, hostname |-> "host",
     agentType |-> "developer", version |-> "1.0.0",
     capabilities |-> <<"task_execution", "code_generation", "monitoring">>]

\* the dict returned by the outer except clause
FallbackMetadata ==
    [hostname |-> "host", agentType |-> "developer", version |-> "1.0.0",
     capabilities |-> <<"task_execution", "code_generation", "monitoring">>]

----------------------------------------------------------------------------
(* calculate_cost *)

\* hourly rates in 1e-4 dollars
cost_map ==
    [t \in {"t2.micro", "t2.small", "t2.medium", "t3.micro", "t3.small",
            "t3.medium", "m5.large", "m5.xlarge", "c5.large", "c5.xlarge"} |->
        CASE t = "t2.micro" -> 116 [] t = "t2.small" -> 230 [] t = "t2.medium" -> 460
          [] t = "t3.micro" -> 104 [] t = "t3.small" -> 208 [] t = "t3.medium" -> 416
          [] t = "m5.large" -> 960 [] t = "m5.xlarge" -> 1920
          [] t = "c5.large" -> 850 [] t = "c5.xlarge" -> 1700]

DefaultHourly == 500

\* a slip: no default rate for a type that is not in the table
HourlyRate_NoDefault(instance_type) ==
    IF instance_type \in DOMAIN cost_map THEN cost_map[instance_type] ELSE 0

\* cost_map.get(instance_type, 0.05)
HourlyRate(instance_type) ==
    IF instance_type \in DOMAIN cost_map THEN cost_map[instance_type] ELSE DefaultHourly

\* a slip: a month of 31 days
calculate_cost_31Days(instance_type) ==
    LET hourly == HourlyRate(instance_type)
    IN  [hourly |-> round(hourly, 10000, 4),
         daily |-> round(hourly * 24, 10000, 2),
         monthly |-> round(hourly * 24 * 31, 10000, 2)]

calculate_cost(instance_type) ==
    LET hourly == HourlyRate(instance_type)
    IN  [hourly |-> round(hourly, 10000, 4),
         daily |-> round(hourly * 24, 10000, 2),
         monthly |-> round(hourly * 24 * 30, 10000, 2)]

----------------------------------------------------------------------------
(* send_heartbeat *)

BusyAbove == 8000       \* cpu > 80, in hundredths of a percent
RunningAbove == 1000    \* cpu > 10, in hundredths of a percent

\* a slip: the band boundaries taken inclusive
StatusOfCpu_Inclusive(cpu) ==
    IF cpu >= BusyAbove THEN "busy"
    ELSE IF cpu >= RunningAbove THEN "running"
    ELSE "idle"

StatusOfCpu(cpu) ==
    IF cpu > BusyAbove THEN "busy"
    ELSE IF cpu > RunningAbove THEN "running"
    ELSE "idle"

\* a slip: the cost is looked up with the wrong metadata field
BuildPayload_CostFromId(m, md) ==
    [status |-> StatusOfCpu(m.cpuUsage),
     metrics |-> m,
     cost |-> calculate_cost(Get(md, "instanceId")),
     metadata |-> md]

\* the dict built at lines 141-147; the timestamp (datetime.now) is left out
BuildPayload(m, md) ==
    [status |-> StatusOfCpu(m.cpuUsage),
     metrics |-> m,
     cost |-> calculate_cost(Get(md, "instanceType")),
     metadata |-> md]

\* requests.post either raises or returns a response; json_ok tells whether
\* the response body parses as JSON
PostResponse(status_code, json_ok) ==
    [kind |-> "response", status_code |-> status_code, json_ok |-> json_ok]

PostReplies == { Raised, PostResponse(200, TRUE), PostResponse(200, FALSE),
                 PostResponse(201, TRUE), PostResponse(500, TRUE),
                 PostResponse(500, FALSE) }

\* the value send_heartbeat returns once requests.post has answered r:
\* response.json() raises on a body that is not JSON, and the except clause
\* of send_heartbeat turns every Exception into False
HeartbeatResult(r) ==
    IF r.kind = "error" THEN FALSE
    ELSE IF r.status_code = 200 THEN r.json_ok
    ELSE FALSE

----------------------------------------------------------------------------
(* simulate_task_activity *)

\* values of random.random(), in hundredths
RandomDraws == {2, 9, 50}

CompleteBelow == 10     \* random.random() < 0.1
StartBelow == 5         \* random.random() < 0.05
FinishBelow == 8        \* random.random() < 0.08
TaskLimit == 5          \* min(self.current_tasks + 1, 5)

\* Which print of the loop body fails with an OSError when it is executed (a
\* full disk or a closed pipe behind stdout): 0 none, 1..3 the prints of
\* simulate_task_activity in order, 4 the "Failed to send heartbeat" print of
\* run.  These are the errors an iteration can raise outside send_heartbeat;
\* the prints of send_heartbeat and of the except clauses are taken to succeed.
PrintFailures == 0..4

\* a slip: finishing the current task decrements the wrong counter
SimulateTaskActivity_WrongCounter(tc, ct, r1, r2, r3, f) ==
    LET completes == r1 < CompleteBelow
        tc1 == IF completes THEN tc + 1 ELSE tc
        starts == r2 < StartBelow
        ct1 == IF starts THEN min(ct + 1, TaskLimit) ELSE ct
        finishes == r3 < FinishBelow /\ ct1 > 0
        tc2 == IF finishes THEN tc1 - 1 ELSE tc1
    IN  [tasks_completed |-> tc2, current_tasks |-> ct1,
         completes |-> completes, starts |-> starts, finishes |-> finishes,
         raised |-> FALSE]

\* a slip: a new task is started without the min(..., 5)
SimulateTaskActivity_NoClamp(tc, ct, r1, r2, r3, f) ==
    LET completes == r1 < CompleteBelow
        tc1 == IF completes THEN tc + 1 ELSE tc
        starts == r2 < StartBelow
        ct1 == IF starts THEN ct + 1 ELSE ct
        finishes == r3 < FinishBelow /\ ct1 > 0
        ct2 == IF finishes THEN ct1 - 1 ELSE ct1
    IN  [tasks_completed |-> tc1, current_tasks |-> ct2,
         completes |-> completes, starts |-> starts, finishes |-> finishes,
         raised |-> FALSE]

\* a slip: finishing the current task also counts as a completed task
SimulateTaskActivity_FinishCounts(tc, ct, r1, r2, r3, f) ==
    LET completes == r1 < CompleteBelow
        tc1 == IF completes THEN tc + 1 ELSE tc
        starts == r2 < StartBelow
        ct1 == IF starts THEN min(ct + 1, TaskLimit) ELSE ct
        finishes == r3 < FinishBelow /\ ct1 > 0
        ct2 == IF finishes THEN ct1 - 1 ELSE ct1
        tc2 == IF finishes THEN tc1 + 1 ELSE tc1
    IN  [tasks_completed |-> tc2, current_tasks |-> ct2,
         completes |-> completes, starts |-> starts, finishes |-> finishes,
         raised |-> FALSE]

\* The three draws r1, r2, r3 in order; a print that raises ends the call after
\* the assignment that precedes it.
SimulateTaskActivity(tc, ct, r1, r2, r3, f) ==
    LET completes == r1 < CompleteBelow
        tc1 == IF completes THEN tc + 1 ELSE tc
        raised1 == completes /\ f = 1
        starts == ~raised1 /\ r2 < StartBelow
        ct1 == IF starts THEN min(ct + 1, TaskLimit) ELSE ct
        raised2 == starts /\ f = 2
        finishes == ~raised1 /\ ~raised2 /\ r3 < FinishBelow /\ ct1 > 0
        ct2 == IF finishes THEN ct1 - 1 ELSE ct1
        raised3 == finishes /\ f = 3
    IN  [tasks_completed |-> tc1, current_tasks |-> ct2,
         completes |-> completes, starts |-> starts, finishes |-> finishes,
         raised |-> raised1 \/ raised2 \/ raised3]

----------------------------------------------------------------------------
(* run: the state machine *)

NewIteration == [sample_failed |-> FALSE, id_lookup |-> "none", type_lookup |-> "none",
                 posted |-> FALSE, reply |-> "none", simulations |-> 0,
                 tasks_before |-> 0,
                 started |-> FALSE, finished |-> FALSE, stopping_logged |-> FALSE]

Init ==
    /\ pc = "Starting"
    /\ heartbeat_interval = NoValue
    /\ tasks_completed = 0
    /\ current_tasks = 0
    /\ metrics = NoValue
    /\ instance_id = NoValue
    /\ metadata = NoValue
    /\ payload = NoValue
    /\ success = NoValue
    /\ last = "start"
    /\ hist = NewIteration
    /\ trail = [env |-> NoValue, posted_before |-> FALSE, sleeps |-> 0,
                prev_completed |-> 0, prev_current |-> 0]

\* the top of the while loop: send_heartbeat is called again; `success` keeps
\* the value of the previous iteration until that call returns
BeginIteration ==
    /\ pc' = "get_system_metrics"
    /\ metrics' = NoValue
    /\ instance_id' = NoValue
    /\ metadata' = NoValue
    /\ payload' = NoValue
    /\ UNCHANGED success
    /\ hist' = NewIteration

\* a slip: a value that does not parse falls back to the default interval
CostEffectiveAgent_FallsBack ==
    /\ pc = "Starting"
    /\ \E e \in EnvIntervals :
          /\ trail' = [trail EXCEPT !.env = e]
          /\ heartbeat_interval' = IF IsIntLiteral(EnvGet(e)) THEN int(EnvGet(e)) ELSE 30
          /\ BeginIteration
    /\ last' = "CostEffectiveAgent"
    /\ UNCHANGED <<tasks_completed, current_tasks>>

\* agent = CostEffectiveAgent(); agent.run(): int() of a string that is no
\* integer literal raises ValueError out of the constructor
CostEffectiveAgent ==
    /\ pc = "Starting"
    /\ \E e \in EnvIntervals :
          /\ trail' = [trail EXCEPT !.env = e]
          /\ IF IsIntLiteral(EnvGet(e))
             THEN /\ heartbeat_interval' = int(EnvGet(e))
                  /\ BeginIteration
             ELSE /\ pc' = "ConfigError"
                  /\ UNCHANGED <<heartbeat_interval, metrics, instance_id, metadata,
                                 payload, success, hist>>
    /\ last' = "CostEffectiveAgent"
    /\ UNCHANGED <<tasks_completed, current_tasks>>

\* send_heartbeat, line 128
get_system_metrics ==
    /\ pc = "get_system_metrics"
    /\ \E h \in HostSamples :
          /\ metrics' = SystemMetrics(h, tasks_completed, current_tasks)
          /\ hist' = [hist EXCEPT !.sample_failed = SamplingRaises(h)]
    /\ pc' = "instance_id"
    /\ last' = "get_system_metrics"
    /\ UNCHANGED <<heartbeat_interval, tasks_completed, current_tasks, instance_id,
                   metadata, payload, success, trail>>

\* get_instance_metadata has returned md: lines 130-150 build the payload and
\* call requests.post
PostPayload(md) ==
    /\ metadata' = md
    /\ payload' = BuildPayload(metrics, md)
    /\ pc' = "post"

\* get_instance_metadata, lines 75-76: an exception of requests.get is caught
\* by the outer except clause, which returns the dict without instance fields
instance_id_lookup ==
    /\ pc = "instance_id"
    /\ \E r \in IdReplies :
          IF r.kind = "error"
          THEN /\ PostPayload(FallbackMetadata)
               /\ hist' = [hist EXCEPT !.id_lookup = "error", !.posted = TRUE]
               /\ UNCHANGED instance_id
          ELSE /\ instance_id' = TextIf200(r)
               /\ pc' = "instance_type"
               /\ hist' = [hist EXCEPT !.id_lookup =
                              IF r.status_code = 200 THEN "ok" ELSE "non200"]
               /\ UNCHANGED <<metadata, payload>>
    /\ last' = "instance_id_lookup"
    /\ UNCHANGED <<heartbeat_interval, tasks_completed, current_tasks, metrics, success,
                   trail>>

\* get_instance_metadata, lines 78-92
instance_type_lookup ==
    /\ pc = "instance_type"
    /\ \E r \in TypeReplies :
          /\ PostPayload(FullMetadata(instance_id,
                                      IF r.kind = "error" THEN None ELSE TextIf200(r)))
          /\ hist' = [hist EXCEPT !.posted = TRUE, !.type_lookup =
                         IF r.kind = "error" THEN "error"
                         ELSE IF r.status_code = 200 THEN "ok" ELSE "non200"]
    /\ last' = "instance_type_lookup"
    /\ UNCHANGED <<heartbeat_interval, tasks_completed, current_tasks, metrics,
                   instance_id, success, trail>>

\* a slip: the task simulation is skipped after a failed send
send_heartbeat_SkipsSimulation ==
    /\ pc = "post"
    /\ \E r \in PostReplies :
          /\ success' = HeartbeatResult(r)
          /\ pc' = IF HeartbeatResult(r) THEN "simulate_task_activity" ELSE "sleep"
          /\ hist' = [hist EXCEPT !.reply =
                         IF r.kind = "error" THEN "error"
                         ELSE IF r.status_code # 200 THEN "non200"
                         ELSE IF r.json_ok THEN "200json" ELSE "200other"]
    /\ trail' = [trail EXCEPT !.posted_before = TRUE, !.sleeps = 0,
                              !.prev_completed = payload.metrics.tasksCompleted,
                              !.prev_current = payload.metrics.currentTasks]
    /\ metrics' = NoValue
    /\ instance_id' = NoValue
    /\ metadata' = NoValue
    /\ payload' = NoValue
    /\ last' = "send_heartbeat"
    /\ UNCHANGED <<heartbeat_interval, tasks_completed, current_tasks>>

\* send_heartbeat, lines 150-162: requests.post answers and send_heartbeat
\* returns; its locals are gone
send_heartbeat ==
    /\ pc = "post"
    /\ \E r \in PostReplies :
          /\ success' = HeartbeatResult(r)
          /\ hist' = [hist EXCEPT !.reply =
                         IF r.kind = "error" THEN "error"
                         ELSE IF r.status_code # 200 THEN "non200"
                         ELSE IF r.json_ok THEN "200json" ELSE "200other"]
    /\ pc' = "simulate_task_activity"
    /\ trail' = [trail EXCEPT !.posted_before = TRUE, !.sleeps = 0,
                              !.prev_completed = payload.metrics.tasksCompleted,
                              !.prev_current = payload.metrics.currentTasks]
    /\ metrics' = NoValue
    /\ instance_id' = NoValue
    /\ metadata' = NoValue
    /\ payload' = NoValue
    /\ last' = "send_heartbeat"
    /\ UNCHANGED <<heartbeat_interval, tasks_completed, current_tasks>>

\* run, lines 189-192
simulate_task_activity ==
    /\ pc = "simulate_task_activity"
    /\ \E r1, r2, r3 \in RandomDraws, f \in PrintFailures :
          LET out == SimulateTaskActivity(tasks_completed, current_tasks, r1, r2, r3, f)
              raised == out.raised \/ (f = 4 /\ ~success)
          IN  /\ r1 < CompleteBelow => tasks_completed < MaxCompleted
              /\ tasks_completed' = out.tasks_completed
              /\ current_tasks' = out.current_tasks
              /\ hist' = [hist EXCEPT !.simulations = @ + 1,
                                      !.tasks_before = current_tasks,
                                      !.started = out.starts, !.finished = out.finishes]
              /\ pc' = IF raised THEN "handler_sleep" ELSE "sleep"
    /\ last' = "simulate_task_activity"
    /\ UNCHANGED <<heartbeat_interval, metrics, instance_id, metadata, payload, success,
                   trail>>

\* a slip: after a failed send the next attempt is made at once
sleep_RetriesAtOnce ==
    /\ pc = "sleep"
    /\ IF heartbeat_interval < 0
       THEN /\ pc' = "handler_sleep"
            /\ UNCHANGED <<metrics, instance_id, metadata, payload, success, hist, trail>>
       ELSE /\ BeginIteration
            /\ trail' = [trail EXCEPT !.sleeps = IF success THEN @ + 1 ELSE @]
    /\ last' = "sleep"
    /\ UNCHANGED <<heartbeat_interval, tasks_completed, current_tasks>>

\* run, line 195: time.sleep of a negative number raises ValueError, which the
\* except Exception clause of run catches
sleep ==
    /\ pc = "sleep"
    /\ IF heartbeat_interval < 0
       THEN /\ pc' = "handler_sleep"
            /\ UNCHANGED <<metrics, instance_id, metadata, payload, success, hist, trail>>
       ELSE /\ BeginIteration
            /\ trail' = [trail EXCEPT !.sleeps = @ + 1]
    /\ last' = "sleep"
    /\ UNCHANGED <<heartbeat_interval, tasks_completed, current_tasks>>

\* run, lines 200-202: the sleep of the except Exception clause; what it raises
\* is raised outside the try block and leaves run
handler_sleep ==
    /\ pc = "handler_sleep"
    /\ IF heartbeat_interval < 0
       THEN /\ pc' = "Crashed"
            /\ UNCHANGED <<metrics, instance_id, metadata, payload, success, hist, trail>>
       ELSE /\ BeginIteration
            /\ trail' = [trail EXCEPT !.sleeps = @ + 1]
    /\ last' = "handler_sleep"
    /\ UNCHANGED <<heartbeat_interval, tasks_completed, current_tasks>>

\* SIGINT: KeyboardInterrupt is raised at the current location.  It is no
\* Exception, so the except Exception clauses let it pass to the except
\* KeyboardInterrupt clause of run (lines 197-199); the two bare except clauses
\* of get_instance_metadata catch it; raised in the sleep of the except
\* Exception clause of run it leaves run.
KeyboardInterrupt ==
    /\ pc \in {"get_system_metrics", "instance_id", "instance_type", "post",
               "simulate_task_activity", "sleep", "handler_sleep"}
    /\ CASE pc = "instance_id" ->
              /\ PostPayload(FallbackMetadata)
              /\ hist' = [hist EXCEPT !.id_lookup = "interrupted", !.posted = TRUE]
              /\ UNCHANGED <<metrics, instance_id, success>>
         [] pc = "instance_type" ->
              /\ PostPayload(FullMetadata(instance_id, None))
              /\ hist' = [hist EXCEPT !.type_lookup = "interrupted", !.posted = TRUE]
              /\ UNCHANGED <<metrics, instance_id, success>>
         [] pc = "handler_sleep" ->
              /\ pc' = "Crashed"
              /\ UNCHANGED <<metrics, instance_id, metadata, payload, success, hist>>
         [] OTHER ->
              /\ pc' = "Stopped"
              /\ hist' = [hist EXCEPT !.stopping_logged = TRUE]
              /\ UNCHANGED <<metrics, instance_id, metadata, payload, success>>
    /\ last' = "KeyboardInterrupt"
    /\ UNCHANGED <<heartbeat_interval, tasks_completed, current_tasks, trail>>

Next ==
    \/ CostEffectiveAgent
    \/ get_system_metrics
    \/ instance_id_lookup
    \/ instance_type_lookup
    \/ send_heartbeat
    \/ simulate_task_activity
    \/ sleep
    \/ handler_sleep
    \/ KeyboardInterrupt

Spec == Init /\ [][Next]_vars

\* The process when no interruption signal arrives and every blocking call
\* (the CPU sampling window, the lookups, the POST, the sleeps) returns: the
\* process is sequential, so the step it is at is eventually taken.
NextUninterrupted ==
    \/ CostEffectiveAgent
    \/ get_system_metrics
    \/ instance_id_lookup
    \/ instance_type_lookup
    \/ send_heartbeat
    \/ simulate_task_activity
    \/ sleep
    \/ handler_sleep

SpecUninterrupted ==
    Init /\ [][NextUninterrupted]_vars /\ WF_vars(NextUninterrupted)

----------------------------------------------------------------------------
(* Properties *)

\* the send of the current iteration has returned the failure signal
SendFailed == hist.reply \in {"error", "non200", "200other"}

\* C1: every send attempt that returns the failure signal (a non-200 response
\* or a transport error) hands control back to the loop, which sleeps and then
\* makes the next attempt: an iteration whose send failed never ends the loop,
\* only an interruption does
C1_FailedSendIsFollowedByNextAttempt ==
    /\ (last = "send_heartbeat" /\ SendFailed)
          => (success = FALSE /\ pc = "simulate_task_activity")
    /\ (SendFailed /\ pc \in {"Stopped", "Crashed"}) => last = "KeyboardInterrupt"

\* C2: every interruption signal, wherever the loop is, moves the loop to Stopped
C2_InterruptStops == last = "KeyboardInterrupt" => pc = "Stopped"

\* C3: run ends only by an interruption, and then cleanly, with the final
\* "stopping" log line printed: never by an escaping exception
C3_CleanExit ==
    pc \in {"Stopped", "Crashed"}
        => (pc = "Stopped" /\ last = "KeyboardInterrupt" /\ hist.stopping_logged)

\* C4: an error other than an interruption raised inside a loop iteration is
\* caught at the loop boundary and the loop goes on with the next send attempt
\* after the sleep of the handler: it never ends the process, whatever integer
\* the heartbeat interval is
C4_ErrorNeverTerminates ==
    /\ last = "handler_sleep" => pc = "get_system_metrics"
    /\ pc = "Crashed" => last = "KeyboardInterrupt"

\* C5: send_heartbeat returns True exactly when the POST was answered with
\* status 200, whatever the body; every other status and every transport
\* error gives False
C5_SuccessIffStatus200 ==
    last = "send_heartbeat"
        => (pc = "simulate_task_activity"
            /\ (success = TRUE <=> hist.reply \in {"200json", "200other"}))

\* C6: tasks_completed never decreases
C6_TasksCompletedMonotonic == [][tasks_completed' >= tasks_completed]_vars

\* C6 witness: a task was completed in an earlier iteration, and the current
\* iteration's sampling failed and its send failed
C6_Witness ==
    tasks_completed >= 2 /\ hist.sample_failed /\ SendFailed /\ pc = "simulate_task_activity"

\* C7: current_tasks stays within 0..5
C7_CurrentTasksBounded == current_tasks >= 0 /\ current_tasks <= 5

\* C7 witness: with five tasks running, one call of simulate_task_activity
\* started a task (clamped at five) and finished one
C7_Witness ==
    /\ last = "simulate_task_activity"
    /\ hist.tasks_before = 5 /\ hist.started /\ hist.finished
    /\ current_tasks = 4

\* C8: after a failed sampling the snapshot has the five sampled fields zero
\* and carries the agent's counters, the failed sampling leaves the counters
\* alone, nothing propagates (the metadata lookup is next) and the heartbeat of
\* the iteration is posted with that snapshot
C8_SamplingFailure ==
    /\ [](hist.sample_failed =>
            /\ pc \in {"instance_id", "instance_type", "post"} =>
                  /\ metrics.cpuUsage = 0 /\ metrics.memoryUsage = 0
                  /\ metrics.diskUsage = 0
                  /\ metrics.networkIn = 0 /\ metrics.networkOut = 0
                  /\ metrics.tasksCompleted = tasks_completed
                  /\ metrics.currentTasks = current_tasks
            /\ last = "get_system_metrics" => pc = "instance_id"
            /\ pc \notin {"instance_id", "instance_type"} => hist.posted
            /\ pc = "post" => payload.metrics = metrics)
    /\ [][(last' = "get_system_metrics" /\ hist'.sample_failed)
              => (tasks_completed' = tasks_completed /\ current_tasks' = current_tasks)]_vars

\* C8 witness: the heartbeat of an iteration whose sampling failed is in
\* flight while the counters are not zero
C8_Witness ==
    /\ pc = "post" /\ hist.sample_failed
    /\ tasks_completed = 1 /\ current_tasks = 2
    /\ payload.metrics.tasksCompleted = 1 /\ payload.metrics.currentTasks = 2

\* C9: a failed lookup (timeout, network error, non-200) loses only its own
\* field: after a failed instance-id lookup the instance-type lookup has been
\* attempted and its field is in the payload, and the other way round; no
\* lookup is retried and the heartbeat is posted
C9_LookupsIndependent ==
    pc = "post" =>
        /\ hist.posted
        /\ hist.id_lookup \in {"error", "non200"}
              => (hist.type_lookup # "none" /\ "instanceType" \in DOMAIN payload.metadata)
        /\ hist.type_lookup \in {"error", "non200"}
              => (hist.id_lookup # "none" /\ "instanceId" \in DOMAIN payload.metadata)

\* C10: the status of a payload is idle for a cpu in [0,10], running for a cpu
\* in (10,80] and busy for a cpu in (80,100] (cpu in hundredths of a percent)
C10_StatusBands ==
    pc = "post" =>
        LET cpu == payload.metrics.cpuUsage
        IN  /\ (0 <= cpu /\ cpu <= 1000) => payload.status = "idle"
            /\ (1000 < cpu /\ cpu <= 8000) => payload.status = "running"
            /\ (8000 < cpu /\ cpu <= 10000) => payload.status = "busy"
            /\ 0 <= cpu /\ cpu <= 10000

\* C10 witness: a heartbeat with cpu exactly 80 and status running is in flight
C10_Witness ==
    pc = "post" /\ payload.metrics.cpuUsage = 8000 /\ payload.status = "running"

\* the instance type a payload carries in its metadata (None when omitted)
TypeOf(p) == Get(p.metadata, "instanceType")

Abs(x) == IF x < 0 THEN 0 - x ELSE x

\* C11 as stated: the cost fields of every payload are non-negative and, on
\* the reported values, daily = hourly x 24 and monthly = daily x 30
\* (hourly in 1e-4 dollars, daily and monthly in cents)
C11_CostRelationsExact ==
    pc = "post" =>
        /\ payload.cost.hourly >= 0 /\ payload.cost.daily >= 0 /\ payload.cost.monthly >= 0
        /\ 100 * payload.cost.daily = 24 * payload.cost.hourly
        /\ payload.cost.monthly = 30 * payload.cost.daily

\* C11 amended: the cost fields of every payload are non-negative; daily and
\* monthly are hourly x 24 and hourly x 24 x 30 rounded to cents, so they are
\* within half a cent of these products, and monthly is within 15.5 cents of
\* daily x 30; the relations are exact for c5.large, c5.xlarge and the
\* default rate
C11_CostRelationsUpToRounding ==
    pc = "post" =>
        /\ payload.cost.hourly >= 0 /\ payload.cost.daily >= 0 /\ payload.cost.monthly >= 0
        /\ 2 * Abs(100 * payload.cost.daily - 24 * payload.cost.hourly) <= 100
        /\ 2 * Abs(100 * payload.cost.monthly - 720 * payload.cost.hourly) <= 100
        /\ 2 * Abs(payload.cost.monthly - 30 * payload.cost.daily) <= 31
        /\ TypeOf(payload) \in {"c5.large", "c5.xlarge", "z9.unknown", None} =>
              /\ 100 * payload.cost.daily = 24 * payload.cost.hourly
              /\ payload.cost.monthly = 30 * payload.cost.daily

\* C11 witness: a t3.medium payload, whose rounded daily cost 1.00 is not
\* 0.0416 x 24 and whose monthly cost 29.95 is not 1.00 x 30
C11_Witness ==
    /\ pc = "post" /\ TypeOf(payload) = "t3.medium"
    /\ payload.cost.hourly = 416 /\ payload.cost.daily = 100
    /\ payload.cost.monthly = 2995

\* C12: for every instance type of the table the cost is round(H, 4),
\* round(H x 24, 2), round(H x 24 x 30, 2) of its rate H, and for an unknown or
\* absent type the same of the default rate 0.05, on every call (the values
\* below are these roundings, in 1e-4 dollars and in cents)
C12_CostOfInstanceType ==
    pc = "post" =>
        LET t == TypeOf(payload)
            c == <<payload.cost.hourly, payload.cost.daily, payload.cost.monthly>>
        IN  c = CASE t = "t2.micro" -> <<116, 28, 835>>
                  [] t = "t2.small" -> <<230, 55, 1656>>
                  [] t = "t2.medium" -> <<460, 110, 3312>>
                  [] t = "t3.micro" -> <<104, 25, 749>>
                  [] t = "t3.small" -> <<208, 50, 1498>>
                  [] t = "t3.medium" -> <<416, 100, 2995>>
                  [] t = "m5.large" -> <<960, 230, 6912>>
                  [] t = "m5.xlarge" -> <<1920, 461, 13824>>
                  [] t = "c5.large" -> <<850, 204, 6120>>
                  [] t = "c5.xlarge" -> <<1700, 408, 12240>>
                  [] OTHER -> <<500, 120, 3600>>

\* C12 witness: a payload whose metadata has no instanceType carries the cost
\* of the default rate
C12_Witness ==
    /\ pc = "post" /\ "instanceType" \notin DOMAIN payload.metadata
    /\ payload.cost = [hourly |-> 500, daily |-> 120, monthly |-> 3600]

\* C13: with no interruption and every blocking call returning, the loop of
\* an agent that has been constructed never hangs or ends: whatever the
\* sampling, lookup and send failures were, the loop has a next step to take,
\* so that (each cycle of the loop passing through the POST) a heartbeat send
\* is attempted again and again
C13_LoopNeverEnds == pc # "ConfigError" => ENABLED NextUninterrupted

\* C14: the first POST is attempted before any sleep, and between two
\* consecutive POST attempts exactly one sleep of heartbeat_interval is
\* completed, also after a failed send: nothing is re-sent within an interval
C14_OnePostPerInterval ==
    pc = "post" =>
        /\ ~trail.posted_before => trail.sleeps = 0
        /\ trail.posted_before => trail.sleeps = 1

\* C14 witness: the POST that follows a failed one is in flight, one sleep
\* after it
C14_Witness ==
    /\ pc = "post" /\ trail.posted_before /\ success = FALSE
    /\ trail.sleeps = 1 /\ last # "KeyboardInterrupt"

\* C15: a HEARTBEAT_INTERVAL that is no integer fails in the constructor: the
\* agent never enters the loop, no heartbeat is sent and no interval is set
\* (the default 30 is only used when the variable is not set); a value that
\* is an integer never fails there
C15_InvalidIntervalFailsAtStartup ==
    pc # "Starting" =>
        /\ trail.env \in { << <<"a", "b", "c">> >>, << <<"1", ".", "5">> >>, << <<>> >> }
              => /\ pc = "ConfigError" /\ last = "CostEffectiveAgent"
                 /\ heartbeat_interval = NoValue
                 /\ ~hist.posted /\ ~trail.posted_before
        /\ trail.env \in { <<>>, << <<" ", "3", "0", " ">> >> }
              => (pc # "ConfigError" /\ heartbeat_interval = 30)
        /\ trail.env = << <<"0">> >> => (pc # "ConfigError" /\ heartbeat_interval = 0)
        /\ trail.env = << <<"-", "1">> >> => (pc # "ConfigError" /\ heartbeat_interval = 0 - 1)

\* C15 witness: HEARTBEAT_INTERVAL=1.5 has ended the process in the constructor
C15_Witness == pc = "ConfigError" /\ trail.env = << <<"1", ".", "5">> >>

\* C16: the payload handed to requests.post carries the metrics and metadata
\* sampled in its own iteration, its status is the band of the cpuUsage it
\* carries and its cost is the cost of the instanceType it carries (of the
\* default rate when that is null, omitted or unknown); cpu 85 on a t3.medium
\* gives busy, 0.0416, 1.0, 29.95
C16_PayloadConsistent ==
    pc = "post" =>
        /\ payload.metrics = metrics /\ payload.metadata = metadata
        /\ payload.status = "busy" <=> payload.metrics.cpuUsage > 8000
        /\ payload.status = "idle" <=> payload.metrics.cpuUsage <= 1000
        /\ payload.status \in {"idle", "running", "busy"}
        /\ TypeOf(payload) = "t3.medium" => payload.cost.hourly = 416
        /\ TypeOf(payload) = "m5.xlarge" => payload.cost.hourly = 1920
        /\ TypeOf(payload) \in {None, "z9.unknown"} => payload.cost.hourly = 500
        /\ (payload.metrics.cpuUsage = 8500 /\ TypeOf(payload) = "t3.medium")
              => /\ payload.status = "busy"
                 /\ payload.cost = [hourly |-> 416, daily |-> 100, monthly |-> 2995]

\* C16 witness: the end-to-end example (cpu 85, memory 50, disk 30, t3.medium)
C16_Witness ==
    /\ pc = "post" /\ TypeOf(payload) = "t3.medium"
    /\ payload.metrics.cpuUsage = 8500 /\ payload.metrics.memoryUsage = 5000
    /\ payload.metrics.diskUsage = 3000
    /\ payload.status = "busy" /\ payload.cost.monthly = 2995

\* C17: the counters change only in simulate_task_activity, never in
\* send_heartbeat; simulate_task_activity runs right after send_heartbeat
\* returns, whatever it returned, and exactly once in the iteration
C17_CountersChangeOnlyInSimulation ==
    /\ []( /\ last = "send_heartbeat"
                => (pc = "simulate_task_activity" /\ hist.simulations = 0)
           /\ hist.simulations <= 1
           /\ hist.simulations = 1 => hist.reply # "none"
           /\ (pc \in {"sleep", "handler_sleep"} /\ hist.reply # "none")
                => hist.simulations = 1 )
    /\ [][ /\ (tasks_completed' # tasks_completed \/ current_tasks' # current_tasks)
                => last' = "simulate_task_activity"
           /\ last' = "send_heartbeat"
                => (tasks_completed' = tasks_completed /\ current_tasks' = current_tasks)
         ]_vars

\* C17 witness: after a send that failed with a transport error the simulation
\* has run once and has changed a counter
C17_Witness ==
    /\ pc = "sleep" /\ hist.reply = "error" /\ hist.simulations = 1
    /\ hist.started /\ current_tasks = hist.tasks_before + 1

\* C18: the counters a payload carries are the agent's counters before the
\* iteration's own simulation (0 and 0 in the first payload); from one payload
\* to the next tasksCompleted grows by at most 1 and currentTasks changes by at
\* most 1
C18_PayloadCountersLagByOne ==
    pc = "post" =>
        /\ payload.metrics.tasksCompleted = tasks_completed
        /\ payload.metrics.currentTasks = current_tasks
        /\ hist.simulations = 0
        /\ ~trail.posted_before
              => (payload.metrics.tasksCompleted = 0 /\ payload.metrics.currentTasks = 0)
        /\ trail.posted_before
              => /\ payload.metrics.tasksCompleted - trail.prev_completed \in {0, 1}
                 /\ payload.metrics.currentTasks - trail.prev_current \in {0 - 1, 0, 1}

\* C18 witness: a payload that reports one more completed task and one fewer
\* current task than the payload before it
C18_Witness ==
    /\ pc = "post" /\ trail.posted_before
    /\ payload.metrics.tasksCompleted = trail.prev_completed + 1
    /\ payload.metrics.currentTasks = trail.prev_current - 1

\* C19: the heartbeat of an iteration whose sampling failed has status idle
C19_FailedSamplingIsIdle ==
    (pc = "post" /\ hist.sample_failed) => payload.status = "idle"

\* C19 witness: the heartbeat of an iteration whose sampling failed is in
\* flight, after an earlier heartbeat
C19_Witness ==
    /\ pc = "post" /\ hist.sample_failed /\ trail.posted_before
    /\ payload.status = "idle" /\ payload.metrics.cpuUsage = 0

====
